---- MODULE Spec2Model ----
(***************************************************************************)
(* Model of the flood-gauge extraction and analysis code:                  *)
(*   - response verification of the three fetchers,                        *)
(*   - the flatteners (gauge models, forecasts),                           *)
(*   - the command line entry point and the extraction orchestrator,       *)
(*   - the subset and statistics functions of the analysis package.        *)
(* Dates are day numbers (day 1 is 2024-01-01), a timestamp is a day and a *)
(* time of day (0 is midnight), forecast values are tenths (125 is 12.5).  *)
(***************************************************************************)
EXTENDS Integers, Sequences, FiniteSets, TLC

VARIABLES
    input,      \* a function under study: the argument it is applied to (the
                \* caller's forecast table for the analysis functions)
    called,     \* a function under study: which function ran, with its arguments
    result,     \* a function under study: what it returned or raised
    pc,         \* a run: where main / the orchestrator stands
    argv,       \* a run: sys.argv (empty when the orchestrator is called directly)
    args,       \* a run: the arguments of the orchestrator
    dirs,       \* a run: the directories that exist
    files,      \* a run: the files written, in order
    requests,   \* a run: the requests issued, each with the response it got
    stdout,     \* a run: the messages printed by main, the validators, the
                \* orchestrator and handle_exception
    exc,        \* a run: the exception raised
    tables,     \* a run: the tables of the orchestrator
    exit_code   \* a run: the exit status of the process (-1 while it runs)

fnVars == <<input, called, result>>
runVars == <<pc, argv, args, dirs, files, requests, stdout, exc, tables, exit_code>>
vars == <<input, called, result, pc, argv, args, dirs, files, requests, stdout,
          exc, tables, exit_code>>

(***************************************************************************)
(* Exceptions.  An exception is its class, its message template and the    *)
(* values the message is formatted with.                                   *)
(***************************************************************************)
NoText == [kind |-> "none", keys |-> {}, val |-> <<>>]

NoExc == [cls |-> "None", msg |-> "", status |-> 0, text |-> NoText]

Exc(cls, msg) == [cls |-> cls, msg |-> msg, status |-> 0, text |-> NoText]

Return(v) == [ok |-> TRUE, val |-> v, exc |-> NoExc]

Raise(e) == [ok |-> FALSE, val |-> <<>>, exc |-> e]

NoResult == [ok |-> FALSE, val |-> <<>>, exc |-> NoExc]

(***************************************************************************)
(* A response is a status code and a body text.  The text is described by  *)
(* what parsing it gives: "invalid" (not JSON), an "object" with its       *)
(* top-level keys and the value stored under them, an "array" (a JSON      *)
(* array or string, whose members are `keys`), or a "scalar" (a number or  *)
(* null).                                                                  *)
(***************************************************************************)
ValidJSON(text) == text.kind # "invalid"

\* `key in data` followed by data[key], as Python evaluates them on the
\* parsed body: membership is undefined on a scalar, indexing by a string
\* is defined on an object only.
HasKey(data, key) == key \in data.keys

\* A variant that parses the body before it looks at the status.
verify_ListGauges_JSONFirst(resp) ==
    IF ~ValidJSON(resp.text)
    THEN Raise(Exc("JSONDecodeError", "Error parsing JSON: {msg}"))
    ELSE IF resp.status_code # 200
    THEN Raise([cls |-> "HTTPError", msg |-> "Error: {status_code} -- {text}",
                status |-> resp.status_code, text |-> resp.text])
    ELSE IF resp.text.kind = "scalar"
    THEN Raise(Exc("TypeError", "argument is not iterable"))
    ELSE IF HasKey(resp.text, "gauges")
    THEN IF resp.text.kind = "object"
         THEN Return(resp.text.val)
         ELSE Raise(Exc("TypeError", "indices must be integers"))
    ELSE Raise(Exc("GaugesNotAvailableError", "No gauges are available"))

\* src/extract/call_ListGauges.py, verify_ListGauges
verify_ListGauges(resp) ==
    IF resp.status_code # 200
    THEN Raise([cls |-> "HTTPError", msg |-> "Error: {status_code} -- {text}",
                status |-> resp.status_code, text |-> resp.text])
    ELSE IF ~ValidJSON(resp.text)
    THEN Raise(Exc("JSONDecodeError", "Error parsing JSON: {msg}"))
    ELSE IF resp.text.kind = "scalar"
    THEN Raise(Exc("TypeError", "argument is not iterable"))
    ELSE IF HasKey(resp.text, "gauges")
    THEN IF resp.text.kind = "object"
         THEN Return(resp.text.val)
         ELSE Raise(Exc("TypeError", "indices must be integers"))
    ELSE Raise(Exc("GaugesNotAvailableError", "No gauges are available"))

\* A variant that lets every 2xx status through to the body checks.
verify_GetGaugeModel_Any2xx(resp) ==
    IF resp.status_code \notin 200..299
    THEN Raise([cls |-> "HTTPError", msg |-> "Error: {status_code} -- {text}",
                status |-> resp.status_code, text |-> resp.text])
    ELSE IF ~ValidJSON(resp.text)
    THEN Raise(Exc("JSONDecodeError", "Error parsing JSON: {msg}"))
    ELSE IF resp.text.kind = "scalar"
    THEN Raise(Exc("TypeError", "argument is not iterable"))
    ELSE IF HasKey(resp.text, "gaugeModels")
    THEN IF resp.text.kind = "object"
         THEN Return(resp.text.val)
         ELSE Raise(Exc("TypeError", "indices must be integers"))
    ELSE Raise(Exc("GaugeModelsNotAvailableError", "No gauge models are available"))

\* src/extract/call_GetGaugeModel.py, verify_GetGaugeModel
verify_GetGaugeModel(resp) ==
    IF resp.status_code # 200
    THEN Raise([cls |-> "HTTPError", msg |-> "Error: {status_code} -- {text}",
                status |-> resp.status_code, text |-> resp.text])
    ELSE IF ~ValidJSON(resp.text)
    THEN Raise(Exc("JSONDecodeError", "Error parsing JSON: {msg}"))
    ELSE IF resp.text.kind = "scalar"
    THEN Raise(Exc("TypeError", "argument is not iterable"))
    ELSE IF HasKey(resp.text, "gaugeModels")
    THEN IF resp.text.kind = "object"
         THEN Return(resp.text.val)
         ELSE Raise(Exc("TypeError", "indices must be integers"))
    ELSE Raise(Exc("GaugeModelsNotAvailableError", "No gauge models are available"))

\* src/extract_data/call_QueryGaugeForecasts.py, verify_response_QueryGaugeForecasts
verify_response_QueryGaugeForecasts(resp) ==
    IF resp.status_code # 200
    THEN Raise([cls |-> "Exception", msg |-> "Error: {status_code} -- {text}",
                status |-> resp.status_code, text |-> resp.text])
    ELSE IF ~ValidJSON(resp.text)
    THEN Raise([cls |-> "Exception", msg |-> "Error parsing .json: {exc} -- {text}",
                status |-> 0, text |-> resp.text])
    ELSE IF resp.text.kind = "scalar"
    THEN Raise(Exc("TypeError", "argument is not iterable"))
    ELSE IF HasKey(resp.text, "forecasts")
    THEN IF resp.text.kind = "object"
         THEN Return(resp.text.val)
         ELSE Raise(Exc("TypeError", "indices must be integers"))
    ELSE Raise(Exc("KeyError", "KeyError: no forecasts found in the API response"))

(***************************************************************************)
(* Response verification under study: a response arrives, one of the three *)
(* verify functions is applied to it.                                      *)
(***************************************************************************)
NoCall == [fn |-> "none"]

FnIdle == input = <<>> /\ called = NoCall /\ result = NoResult

RunIdle ==
    /\ pc = "off" /\ argv = <<>> /\ args = <<>> /\ dirs = {} /\ files = <<>>
    /\ requests = <<>> /\ stdout = <<>> /\ exc = NoExc /\ tables = <<>>
    /\ exit_code = -1

Statuses == {200, 201, 204, 404, 500}

TopLevelKeys == {"gauges", "gaugeModels", "forecasts", "error"}

VerifyPayloads == {<<>>, <<"G1">>}

Texts ==
    {[kind |-> "invalid", keys |-> {}, val |-> <<>>],
     [kind |-> "scalar", keys |-> {}, val |-> <<>>]}
    \cup {[kind |-> "object", keys |-> ks, val |-> v] :
             ks \in SUBSET TopLevelKeys, v \in VerifyPayloads}
    \cup {[kind |-> "array", keys |-> ks, val |-> <<>>] : ks \in SUBSET TopLevelKeys}

Responses == {[status_code |-> s, text |-> t] : s \in Statuses, t \in Texts}

InitVerify == input \in Responses /\ called = NoCall /\ result = NoResult /\ RunIdle

VerifyListGauges ==
    /\ called = NoCall
    /\ called' = [fn |-> "verify_ListGauges"]
    /\ result' = verify_ListGauges(input)
    /\ UNCHANGED <<input, runVars>>

VerifyGetGaugeModel ==
    /\ called = NoCall
    /\ called' = [fn |-> "verify_GetGaugeModel"]
    /\ result' = verify_GetGaugeModel(input)
    /\ UNCHANGED <<input, runVars>>

VerifyQueryGaugeForecasts ==
    /\ called = NoCall
    /\ called' = [fn |-> "verify_response_QueryGaugeForecasts"]
    /\ result' = verify_response_QueryGaugeForecasts(input)
    /\ UNCHANGED <<input, runVars>>

NextVerify == VerifyListGauges \/ VerifyGetGaugeModel \/ VerifyQueryGaugeForecasts

SpecVerify == InitVerify /\ [][NextVerify]_vars

VerifyFns ==
    {"verify_ListGauges", "verify_GetGaugeModel", "verify_response_QueryGaugeForecasts"}

\* The top-level key each fetcher expects.
ExpectedKey(fn) ==
    CASE fn = "verify_ListGauges" -> "gauges"
      [] fn = "verify_GetGaugeModel" -> "gaugeModels"
      [] fn = "verify_response_QueryGaugeForecasts" -> "forecasts"

\* The condition each fetcher raises for a missing key.
AbsenceClass(fn) ==
    CASE fn = "verify_ListGauges" -> "GaugesNotAvailableError"
      [] fn = "verify_GetGaugeModel" -> "GaugeModelsNotAvailableError"
      [] fn = "verify_response_QueryGaugeForecasts" -> "KeyError"

IsTransportError(res, resp) ==
    /\ ~res.ok
    /\ res.exc.msg = "Error: {status_code} -- {text}"
    /\ res.exc.status = resp.status_code
    /\ res.exc.text = resp.text

IsPayloadError(res) ==
    /\ ~res.ok
    /\ res.exc.msg \in {"Error parsing JSON: {msg}", "Error parsing .json: {exc} -- {text}"}

IsDomainAbsence(res, fn) == ~res.ok /\ res.exc.cls = AbsenceClass(fn)

C23_StatusThenJSONThenKey ==
    called.fn \in VerifyFns =>
        /\ input.status_code # 200 =>
              (IsTransportError(result, input) /\ ~IsPayloadError(result)
               /\ ~IsDomainAbsence(result, called.fn))
        /\ IsPayloadError(result) =>
              (input.status_code = 200 /\ ~ValidJSON(input.text))
        /\ IsDomainAbsence(result, called.fn) =>
              (input.status_code = 200 /\ ValidJSON(input.text))

C23_Witness ==
    /\ called.fn = "verify_ListGauges"
    /\ input.status_code = 201
    /\ input.text.kind = "object"
    /\ "gauges" \in input.text.keys
    /\ IsTransportError(result, input)

(***************************************************************************)
(* The forecast flattener.  The payload (the value under `forecasts`) maps *)
(* gauge identifiers to their issued forecasts; a JSON object keeps its    *)
(* order and has no key twice, so it is a sequence of                      *)
(* [gauge_id, forecasts] with distinct gauge_id.                           *)
(***************************************************************************)
\* s[:10] of an ISO timestamp string: its date part.
DatePart(ts) == ts.day

\* pd.to_datetime of a date-only string: midnight of that day.
DateToDatetime(day) == [day |-> day, tod |-> 0]

\* A variant that keeps one record per forecast date of an issued forecast.
RangeRecords_OnePerDate(gauge_id, issued_time, ranges) ==
    LET keep == {k \in 1..Len(ranges) :
                    \A j \in 1..(k - 1) :
                        DatePart(ranges[j].forecastStartTime)
                        # DatePart(ranges[k].forecastStartTime)}
        pick[n \in 0..Len(ranges)] ==
            IF n = 0 THEN <<>>
            ELSE IF n \in keep
                 THEN Append(pick[n - 1],
                             [gauge_ID |-> gauge_id,
                              issue_time |-> issued_time,
                              fc_date |-> DatePart(ranges[n].forecastStartTime),
                              fc_value |-> ranges[n].value])
                 ELSE pick[n - 1]
    IN pick[Len(ranges)]

\* The records one issued forecast appends, in the order of its ranges.
RangeRecords(gauge_id, issued_time, ranges) ==
    [k \in 1..Len(ranges) |->
        [gauge_ID |-> gauge_id,
         issue_time |-> issued_time,
         fc_date |-> DatePart(ranges[k].forecastStartTime),
         fc_value |-> ranges[k].value]]

RECURSIVE ForecastRecords(_, _)
ForecastRecords(gauge_id, forecasts) ==
    IF forecasts = <<>> THEN <<>>
    ELSE RangeRecords(gauge_id, Head(forecasts).issuedTime, Head(forecasts).forecastRanges)
         \o ForecastRecords(gauge_id, Tail(forecasts))

RECURSIVE Records(_)
Records(payload) ==
    IF payload = <<>> THEN <<>>
    ELSE ForecastRecords(Head(payload).gauge_id, Head(payload).forecasts)
         \o Records(Tail(payload))

\* src/extract_data/call_QueryGaugeForecasts.py, convert_QueryGaugeForecasts_to_df.
\* A DataFrame built from no record has no column: df['issue_time'] raises.
convert_QueryGaugeForecasts_to_df(payload) ==
    LET records == Records(payload) IN
    IF records = <<>>
    THEN Raise(Exc("KeyError", "issue_time"))
    ELSE Return([k \in 1..Len(records) |->
                    [gauge_ID |-> records[k].gauge_ID,
                     issue_date |-> records[k].issue_time.day,
                     issue_time |-> records[k].issue_time,
                     fc_date |-> DateToDatetime(records[k].fc_date),
                     fc_value |-> records[k].fc_value]])

(***************************************************************************)
(* The flattener under study: payloads of at most MaxForecasts issued      *)
(* forecasts and MaxRanges forecast ranges in all, over two gauges.        *)
(***************************************************************************)
MaxForecasts == 2

MaxRanges == 2

GaugeIds == {"G1", "G2"}

IssuedTimes == {[day |-> 1, tod |-> 0], [day |-> 1, tod |-> 1], [day |-> 2, tod |-> 0]}

ForecastRanges ==
    {[forecastStartTime |-> [day |-> 1, tod |-> 0], value |-> 125],
     [forecastStartTime |-> [day |-> 2, tod |-> 0], value |-> 130],
     [forecastStartTime |-> [day |-> 3, tod |-> 0], value |-> 125]}

IssuedForecasts(n) ==
    {[issuedTime |-> t, forecastRanges |-> rs] :
        t \in IssuedTimes, rs \in [1..n -> ForecastRanges]}

\* The lists of exactly f issued forecasts that hold exactly n ranges in all.
RECURSIVE ForecastLists(_, _)
ForecastLists(f, n) ==
    IF f = 0 THEN (IF n = 0 THEN {<<>>} ELSE {})
    ELSE UNION {{<<x>> \o s : x \in IssuedForecasts(k), s \in ForecastLists(f - 1, n - k)} :
                   k \in 0..n}

\* How the forecasts and ranges of a payload divide over its two gauges.
Shares ==
    {x \in (0..MaxForecasts) \X (0..MaxRanges) \X (0..MaxForecasts) \X (0..MaxRanges) :
        x[1] + x[3] <= MaxForecasts /\ x[2] + x[4] <= MaxRanges}

InitFlatten ==
    /\ \/ input = <<>>
       \/ \E g \in GaugeIds, f \in 0..MaxForecasts, n \in 0..MaxRanges :
             \E fl \in ForecastLists(f, n) :
                input = <<[gauge_id |-> g, forecasts |-> fl]>>
       \/ \E q \in Shares, gg \in {x \in GaugeIds \X GaugeIds : x[1] # x[2]} :
             \E fl1 \in ForecastLists(q[1], q[2]), fl2 \in ForecastLists(q[3], q[4]) :
                input = <<[gauge_id |-> gg[1], forecasts |-> fl1],
                          [gauge_id |-> gg[2], forecasts |-> fl2]>>
    /\ called = NoCall /\ result = NoResult /\ RunIdle

Flatten ==
    /\ called = NoCall
    /\ called' = [fn |-> "convert_QueryGaugeForecasts_to_df"]
    /\ result' = convert_QueryGaugeForecasts_to_df(input)
    /\ UNCHANGED <<input, runVars>>

NextFlatten == Flatten

SpecFlatten == InitFlatten /\ [][NextFlatten]_vars

\* The (gauge, issued forecast, forecast range) positions of a payload.
Triples(p) ==
    {t \in (1..Len(p)) \X (1..MaxForecasts) \X (1..MaxRanges) :
        /\ t[2] <= Len(p[t[1]].forecasts)
        /\ t[3] <= Len(p[t[1]].forecasts[t[2]].forecastRanges)}

\* The row the claim gives for one position.
ExpectedRow(p, t) ==
    LET forecast == p[t[1]].forecasts[t[2]]
        range == forecast.forecastRanges[t[3]]
    IN [gauge_ID |-> p[t[1]].gauge_id,
        issue_date |-> forecast.issuedTime.day,
        issue_time |-> forecast.issuedTime,
        fc_date |-> [day |-> range.forecastStartTime.day, tod |-> 0],
        fc_value |-> range.value]

ExamplePayload ==
    <<[gauge_id |-> "G1",
       forecasts |-> <<[issuedTime |-> [day |-> 1, tod |-> 0],
                        forecastRanges |->
                            <<[forecastStartTime |-> [day |-> 1, tod |-> 0], value |-> 125],
                              [forecastStartTime |-> [day |-> 2, tod |-> 0], value |-> 130]>>]>>]>>

ExampleRows ==
    {[gauge_ID |-> "G1", issue_date |-> 1, issue_time |-> [day |-> 1, tod |-> 0],
      fc_date |-> [day |-> 1, tod |-> 0], fc_value |-> 125],
     [gauge_ID |-> "G1", issue_date |-> 1, issue_time |-> [day |-> 1, tod |-> 0],
      fc_date |-> [day |-> 2, tod |-> 0], fc_value |-> 130]}

\* C3: the flattener emits exactly one row per (gauge, issued forecast,
\* forecast range): as many rows as ranges, every position's row occurring
\* as often among the rows as among the positions (none dropped, duplicated
\* or merged), each row holding its gauge, issue timestamp, issue date,
\* forecast date and value; the example payload yields its two rows.
C3_OneRowPerRange ==
    called.fn = "convert_QueryGaugeForecasts_to_df" =>
        LET T == Triples(input) IN
        /\ T # {} => result.ok
        /\ result.ok =>
            /\ Len(result.val) = Cardinality(T)
            /\ \A t \in T :
                  Cardinality({n \in DOMAIN result.val : result.val[n] = ExpectedRow(input, t)})
                  = Cardinality({u \in T : ExpectedRow(input, u) = ExpectedRow(input, t)})
        /\ input = ExamplePayload =>
            /\ Len(result.val) = 2
            /\ {result.val[n] : n \in DOMAIN result.val} = ExampleRows

C3_Witness ==
    /\ called.fn = "convert_QueryGaugeForecasts_to_df"
    /\ input = ExamplePayload
    /\ result.ok
    /\ Len(result.val) = 2

\* C11: in every forecast table the flattener produces, (gauge, issue
\* date, forecast date) is a key, and for a fixed (gauge, issue date) the
\* forecast dates form a gap-free run of consecutive days.
C11_KeyAndContiguous ==
    (called.fn = "convert_QueryGaugeForecasts_to_df" /\ result.ok) =>
        LET df == result.val IN
        /\ \A m, n \in DOMAIN df :
              (/\ df[m].gauge_ID = df[n].gauge_ID
               /\ df[m].issue_date = df[n].issue_date
               /\ df[m].fc_date = df[n].fc_date) => m = n
        /\ \A m, n \in DOMAIN df :
              (/\ df[m].gauge_ID = df[n].gauge_ID
               /\ df[m].issue_date = df[n].issue_date
               /\ df[m].fc_date.day < df[n].fc_date.day)
              => \A d \in df[m].fc_date.day..df[n].fc_date.day :
                    \E k \in DOMAIN df :
                       /\ df[k].gauge_ID = df[m].gauge_ID
                       /\ df[k].issue_date = df[m].issue_date
                       /\ df[k].fc_date.day = d

(***************************************************************************)
(* The gauge-model flattener.  The payload (the value under `gaugeModels`) *)
(* is a list of records; a record may lack `thresholds`, and a thresholds  *)
(* object may lack any of its three keys.  A cell of the table is null or  *)
(* a number.                                                               *)
(***************************************************************************)
Null == [null |-> TRUE, v |-> 0]

Num(v) == [null |-> FALSE, v |-> v]

ThresholdKeys == {"warningLevel", "dangerLevel", "extremeDangerLevel"}

NoThresholds == [k \in ThresholdKeys |-> Null]

\* pd.DataFrame(response) has a `thresholds` column when some record has the key.
HasThresholdsColumn(resp) == \E k \in 1..Len(resp) : resp[k].has_thresholds

\* A variant that fills a missing key with 0.
GetLevel_ZeroFill(record, key) ==
    IF record.has_thresholds
    THEN (IF record.thresholds[key].null THEN Num(0) ELSE record.thresholds[key])
    ELSE Null

\* x.get(key) if isinstance(x, dict) else np.nan: the cell of a record
\* without thresholds is NaN, a missing key of a thresholds object gives None.
GetLevel(record, key) ==
    IF record.has_thresholds THEN record.thresholds[key] ELSE Null

\* src/extract/call_GetGaugeModel.py, convert_GetGaugeModel_to_df
convert_GetGaugeModel_to_df(resp) ==
    IF ~HasThresholdsColumn(resp)
    THEN Raise(Exc("KeyError", "thresholds"))
    ELSE Return([k \in 1..Len(resp) |->
                    [gaugeId |-> resp[k].gaugeId,
                     warningLevel |-> GetLevel(resp[k], "warningLevel"),
                     dangerLevel |-> GetLevel(resp[k], "dangerLevel"),
                     extremeDangerLevel |-> GetLevel(resp[k], "extremeDangerLevel")]])

\* src/extract_data/call_GetGaugeModel.py, convert_GetGaugeModel_to_df:
\* x['dangerLevel'] with no test of x.
extract_data_convert_GetGaugeModel_to_df(resp) ==
    IF ~HasThresholdsColumn(resp)
    THEN Raise(Exc("KeyError", "thresholds"))
    ELSE IF \E k \in 1..Len(resp) : ~resp[k].has_thresholds
    THEN Raise(Exc("TypeError", "'float' object is not subscriptable"))
    ELSE IF \E k \in 1..Len(resp), key \in ThresholdKeys : resp[k].thresholds[key].null
    THEN Raise(Exc("KeyError", "dangerLevel, extremeDangerLevel or warningLevel"))
    ELSE Return([k \in 1..Len(resp) |->
                    [gaugeId |-> resp[k].gaugeId,
                     warningLevel |-> resp[k].thresholds["warningLevel"],
                     dangerLevel |-> resp[k].thresholds["dangerLevel"],
                     extremeDangerLevel |-> resp[k].thresholds["extremeDangerLevel"]]])

(***************************************************************************)
(* The gauge-model flattener under study: responses of at most MaxModels   *)
(* records.                                                                *)
(***************************************************************************)
MaxModels == 2

Levels == {Null, Num(0), Num(5)}

GaugeModels ==
    {[gaugeId |-> g, has_thresholds |-> FALSE, thresholds |-> NoThresholds] : g \in GaugeIds}
    \cup {[gaugeId |-> g, has_thresholds |-> TRUE, thresholds |-> t] :
             g \in GaugeIds, t \in [ThresholdKeys -> Levels]}

InitModels ==
    /\ \E n \in 0..MaxModels : \E resp \in [1..n -> GaugeModels] : input = resp
    /\ called = NoCall /\ result = NoResult /\ RunIdle

ConvertGetGaugeModel ==
    /\ called = NoCall
    /\ called' = [fn |-> "convert_GetGaugeModel_to_df"]
    /\ result' = convert_GetGaugeModel_to_df(input)
    /\ UNCHANGED <<input, runVars>>

ConvertGetGaugeModelExtractData ==
    /\ called = NoCall
    /\ called' = [fn |-> "extract_data.convert_GetGaugeModel_to_df"]
    /\ result' = extract_data_convert_GetGaugeModel_to_df(input)
    /\ UNCHANGED <<input, runVars>>

NextModels == ConvertGetGaugeModel \/ ConvertGetGaugeModelExtractData

SpecModels == InitModels /\ [][NextModels]_vars

\* C7: for every gauge-model response with at least one record the
\* conversion does not raise, and a record without `thresholds` gets null
\* in warningLevel, dangerLevel and extremeDangerLevel, whatever the other
\* records hold (also when no record has `thresholds`).
C7_MissingThresholdsAreNull ==
    (called.fn = "convert_GetGaugeModel_to_df" /\ Len(input) >= 1) =>
        /\ result.ok
        /\ Len(result.val) = Len(input)
        /\ \A k \in 1..Len(input) :
              ~input[k].has_thresholds =>
                  /\ result.val[k].warningLevel.null
                  /\ result.val[k].dangerLevel.null
                  /\ result.val[k].extremeDangerLevel.null

\* C19: a record whose `thresholds` object lacks a key gets null in that
\* column only, never 0 or another number, its other thresholds are copied
\* unchanged; the output has one row per record and no `thresholds` column.
C19_MissingKeyIsNull ==
    (/\ called.fn = "convert_GetGaugeModel_to_df"
     /\ \E k \in 1..Len(input) : input[k].has_thresholds)
    => /\ result.ok
       /\ Len(result.val) = Len(input)
       /\ \A k \in 1..Len(input) :
             /\ "thresholds" \notin DOMAIN result.val[k]
             /\ result.val[k].gaugeId = input[k].gaugeId
             /\ input[k].has_thresholds =>
                   \A key \in ThresholdKeys :
                      IF input[k].thresholds[key].null
                      THEN result.val[k][key].null
                      ELSE /\ ~result.val[k][key].null
                           /\ result.val[k][key].v = input[k].thresholds[key].v

C19_Witness ==
    /\ called.fn = "convert_GetGaugeModel_to_df"
    /\ Len(input) = 2
    /\ input[1].has_thresholds
    /\ input[1].thresholds["warningLevel"].null
    /\ input[1].thresholds["dangerLevel"] = Num(5)
    /\ result.ok
    /\ result.val[1].warningLevel.null
    /\ result.val[1].dangerLevel = Num(5)

(***************************************************************************)
(* The analysis functions.  A forecast table is its rows and the type of   *)
(* its gaugeId column (strings, or numbers as pandas reads purely numeric  *)
(* identifiers); a row is a gauge identifier (by its string form), an      *)
(* issue date (a timestamp), a forecast date (a day) and a forecast value. *)
(***************************************************************************)
\* a + days, for a timestamp a
PlusDays(a, days) == [day |-> a.day + days, tod |-> a.tod]

\* A variant that compares the dates only.
Later_DatesOnly(a, b) == a.day > b.day

\* a > b, for timestamps
Later(a, b) == a.day > b.day \/ (a.day = b.day /\ a.tod > b.tod)

\* issue_time.replace(hour = 0, minute = 0, second = 0, microsecond = 0),
\* Series.dt.normalize()
Normalize(a) == [day |-> a.day, tod |-> 0]

\* A variant that compares the issue dates as they are, time of day included.
make_subset_for_gauge_and_issue_time_AsIs(table, gauge, issue_date) ==
    LET converted == [gaugeId_is_str |-> TRUE, rows |-> table.rows]
        Match(r) == r.gaugeId = gauge /\ r.issue_date = issue_date
    IN [df |-> converted, out |-> SelectSeq(converted.rows, Match)]

\* A variant that normalizes the issue_date argument as well.
make_subset_for_gauge_and_issue_time_BothNormalized(table, gauge, issue_date) ==
    LET normalized ==
            [gaugeId_is_str |-> TRUE,
             rows |-> [k \in 1..Len(table.rows) |->
                          [table.rows[k] EXCEPT !.issue_date = Normalize(@)]]]
        Match(r) == r.gaugeId = gauge /\ r.issue_date = Normalize(issue_date)
    IN [df |-> normalized, out |-> SelectSeq(normalized.rows, Match)]

\* src/analyze/transform.py, make_subset_for_gauge_and_issue_time: converts
\* and normalizes the columns of the table it is given, in place, and
\* returns the matching rows.
make_subset_for_gauge_and_issue_time(table, gauge, issue_date) ==
    LET normalized ==
            [gaugeId_is_str |-> TRUE,
             rows |-> [k \in 1..Len(table.rows) |->
                          [table.rows[k] EXCEPT !.issue_date = Normalize(@)]]]
        Match(r) == r.gaugeId = gauge /\ r.issue_date = issue_date
    IN [df |-> normalized, out |-> SelectSeq(normalized.rows, Match)]

\* df['fc_date'].max()
RECURSIVE MaxFcDate(_)
MaxFcDate(rows) ==
    IF Len(rows) = 1 THEN rows[1].fc_date
    ELSE LET m == MaxFcDate(Tail(rows)) IN
         IF rows[1].fc_date > m THEN rows[1].fc_date ELSE m

\* The lead-time buffer of the range check.
LeadDays == 4

\* range(0, delta)
Range(delta) == 0..(delta - 1)

\* The subsets of the copy for idx = 0 .. delta - 1, concatenated.
RECURSIVE ConcatSubsets(_, _, _, _, _)
ConcatSubsets(table, gauge_ID, t0, idx, delta) ==
    IF idx \notin Range(delta) THEN <<>>
    ELSE LET sub == make_subset_for_gauge_and_issue_time(table, gauge_ID, PlusDays(t0, idx))
         IN sub.out \o ConcatSubsets(sub.df, gauge_ID, t0, idx + 1, delta)

RECURSIVE Sum(_)
Sum(values) == IF values = <<>> THEN 0 ELSE Head(values) + Sum(Tail(values))

RECURSIVE SumSq(_)
SumSq(values) ==
    IF values = <<>> THEN 0 ELSE Head(values) * Head(values) + SumSq(Tail(values))

RECURSIVE Min(_)
Min(values) ==
    IF Len(values) = 1 THEN values[1]
    ELSE LET m == Min(Tail(values)) IN IF values[1] < m THEN values[1] ELSE m

RECURSIVE Max(_)
Max(values) ==
    IF Len(values) = 1 THEN values[1]
    ELSE LET m == Max(Tail(values)) IN IF values[1] > m THEN values[1] ELSE m

\* A statistic is NaN, or the fraction num / den, or its square root.
NaN == [nan |-> TRUE, num |-> 0, den |-> 1, sqrt |-> FALSE]

Frac(num, den) == [nan |-> FALSE, num |-> num, den |-> den, sqrt |-> FALSE]

\* The sample variance (ddof = 1) of a group: NaN for a single value.
Var(values) ==
    LET n == Len(values) IN
    IF n < 2 THEN NaN
    ELSE Frac(n * SumSq(values) - Sum(values) * Sum(values), n * (n - 1))

Stats == {"min", "max", "mean", "dev", "var"}

\* grouped.min() / .max() / .mean() / .std() / .var() on one group
Reduce(stat, values) ==
    CASE stat = "min" -> Frac(Min(values), 1)
      [] stat = "max" -> Frac(Max(values), 1)
      [] stat = "mean" -> Frac(Sum(values), Len(values))
      [] stat = "dev" -> [Var(values) EXCEPT !.sqrt = ~Var(values).nan]
      [] stat = "var" -> Var(values)

\* groupby('issue_date')['fc_value']: one group per issue date of the rows,
\* in ascending order of the date, holding the values of its rows in order.
GroupDates(rows) == {rows[k].issue_date : k \in 1..Len(rows)}

RECURSIVE SortedDates(_)
SortedDates(dates) ==
    IF dates = {} THEN <<>>
    ELSE LET first == CHOOSE d \in dates : \A e \in dates \ {d} : Later(e, d)
         IN <<first>> \o SortedDates(dates \ {first})

GroupValues(rows, date) ==
    LET Of(r) == r.issue_date = date
        group == SelectSeq(rows, Of)
    IN [k \in 1..Len(group) |-> group[k].fc_value]

\* A variant whose window also takes the day t0 + delta.
get_stats_for_forecast_range_OneDayMore(table, issue_time, gauge_ID, delta, stat) ==
    IF Later(PlusDays(issue_time, delta + LeadDays),
             DateToDatetime(MaxFcDate(table.rows)))
    THEN Raise(Exc("ValueError",
                   "Issue time + delta exceeds the max forecasted date in the dataframe"))
    ELSE IF Range(delta) = {}
    THEN Raise(Exc("ValueError", "No objects to concatenate"))
    ELSE IF stat \notin Stats
    THEN Raise(Exc("ValueError", "Statistic {stat} not recognized"))
    ELSE LET rows == ConcatSubsets(table, gauge_ID, Normalize(issue_time), 0, delta + 1)
             dates == SortedDates(GroupDates(rows))
         IN Return([k \in 1..Len(dates) |->
                       [issue_date |-> dates[k],
                        value |-> Reduce(stat, GroupValues(rows, dates[k]))]])

\* A variant that takes an unrecognized statistic for the mean.
get_stats_for_forecast_range_DefaultMean(table, issue_time, gauge_ID, delta, stat) ==
    IF Later(PlusDays(issue_time, delta + LeadDays),
             DateToDatetime(MaxFcDate(table.rows)))
    THEN Raise(Exc("ValueError",
                   "Issue time + delta exceeds the max forecasted date in the dataframe"))
    ELSE IF Range(delta) = {}
    THEN Raise(Exc("ValueError", "No objects to concatenate"))
    ELSE LET rows == ConcatSubsets(table, gauge_ID, Normalize(issue_time), 0, delta)
             dates == SortedDates(GroupDates(rows))
         IN Return([k \in 1..Len(dates) |->
                       [issue_date |-> dates[k],
                        value |-> Reduce(IF stat \in Stats THEN stat ELSE "mean",
                                         GroupValues(rows, dates[k]))]])

\* A variant whose range check also rejects equality.
get_stats_for_forecast_range_Strict(table, issue_time, gauge_ID, delta, stat) ==
    IF ~Later(DateToDatetime(MaxFcDate(table.rows)),
              PlusDays(issue_time, delta + LeadDays))
    THEN Raise(Exc("ValueError",
                   "Issue time + delta exceeds the max forecasted date in the dataframe"))
    ELSE IF Range(delta) = {}
    THEN Raise(Exc("ValueError", "No objects to concatenate"))
    ELSE IF stat \notin Stats
    THEN Raise(Exc("ValueError", "Statistic {stat} not recognized"))
    ELSE LET rows == ConcatSubsets(table, gauge_ID, Normalize(issue_time), 0, delta)
             dates == SortedDates(GroupDates(rows))
         IN Return([k \in 1..Len(dates) |->
                       [issue_date |-> dates[k],
                        value |-> Reduce(stat, GroupValues(rows, dates[k]))]])

\* A variant for which the concatenation of no subset is an empty table.
get_stats_for_forecast_range_EmptyOfNone(table, issue_time, gauge_ID, delta, stat) ==
    IF Later(PlusDays(issue_time, delta + LeadDays),
             DateToDatetime(MaxFcDate(table.rows)))
    THEN Raise(Exc("ValueError",
                   "Issue time + delta exceeds the max forecasted date in the dataframe"))
    ELSE IF stat \notin Stats
    THEN Raise(Exc("ValueError", "Statistic {stat} not recognized"))
    ELSE LET rows == ConcatSubsets(table, gauge_ID, Normalize(issue_time), 0, delta)
             dates == SortedDates(GroupDates(rows))
         IN Return([k \in 1..Len(dates) |->
                       [issue_date |-> dates[k],
                        value |-> Reduce(stat, GroupValues(rows, dates[k]))]])

\* src/analyze/statistics.py, get_stats_for_forecast_range.  It works on a
\* copy of the table; pd.concat of no subset raises.
get_stats_for_forecast_range(table, issue_time, gauge_ID, delta, stat) ==
    IF Later(PlusDays(issue_time, delta + LeadDays),
             DateToDatetime(MaxFcDate(table.rows)))
    THEN Raise(Exc("ValueError",
                   "Issue time + delta exceeds the max forecasted date in the dataframe"))
    ELSE IF Range(delta) = {}
    THEN Raise(Exc("ValueError", "No objects to concatenate"))
    ELSE IF stat \notin Stats
    THEN Raise(Exc("ValueError", "Statistic {stat} not recognized"))
    ELSE LET rows == ConcatSubsets(table, gauge_ID, Normalize(issue_time), 0, delta)
             dates == SortedDates(GroupDates(rows))
         IN Return([k \in 1..Len(dates) |->
                       [issue_date |-> dates[k],
                        value |-> Reduce(stat, GroupValues(rows, dates[k]))]])

(***************************************************************************)
(* The analysis functions under study: a caller holds a forecast table of  *)
(* at most MaxRows rows (the variable `input`) and calls the subset        *)
(* function on it any number of times, then the statistics function.  The  *)
(* statistics function leaves the table as it is, so a call after it does  *)
(* what the same call before it does: the run is followed up to there.     *)
(***************************************************************************)
MaxRows == 2

AnalysisGauges == {"1", "2"}

IssueTimes == {[day |-> d, tod |-> t] : d \in {1, 2}, t \in {0, 1}}

\* A forecast date with its value.
FcCells == {<<6, 125>>, <<7, 130>>}

TableRows ==
    {[gaugeId |-> g, issue_date |-> t, fc_date |-> c[1], fc_value |-> c[2]] :
        g \in AnalysisGauges, t \in IssuedTimes, c \in FcCells}

Deltas == {-1, 0, 1, 2}

StatNames == Stats \cup {"median"}

InitAnalyze ==
    /\ \E n \in 1..MaxRows, is_str \in BOOLEAN :
          \E rows \in [1..n -> TableRows] :
             input = [gaugeId_is_str |-> is_str, rows |-> rows]
    /\ called = NoCall /\ result = NoResult /\ RunIdle

MakeSubset ==
    \E gauge \in AnalysisGauges, issue_date \in IssueTimes :
        LET sub == make_subset_for_gauge_and_issue_time(input, gauge, issue_date) IN
        /\ called.fn # "get_stats_for_forecast_range"
        /\ called' = [fn |-> "make_subset_for_gauge_and_issue_time",
                      gauge |-> gauge, issue_date |-> issue_date]
        /\ input' = sub.df
        /\ result' = Return(sub.out)
        /\ UNCHANGED runVars

\* A variant that subsets the table of the caller, not a copy of it.
GetStats_NoCopy ==
    \E issue_time \in IssueTimes, gauge_ID \in AnalysisGauges,
       delta \in Deltas, stat \in StatNames :
        LET res == get_stats_for_forecast_range(input, issue_time, gauge_ID, delta, stat)
            subset == make_subset_for_gauge_and_issue_time(input, gauge_ID,
                                                           Normalize(issue_time))
            checked == ~Later(PlusDays(issue_time, delta + LeadDays),
                              DateToDatetime(MaxFcDate(input.rows)))
        IN
        /\ called.fn # "get_stats_for_forecast_range"
        /\ called' = [fn |-> "get_stats_for_forecast_range", issue_time |-> issue_time,
                      gauge_ID |-> gauge_ID, delta |-> delta, stat |-> stat]
        /\ result' = res
        /\ input' = IF delta >= 1 /\ checked THEN subset.df ELSE input
        /\ UNCHANGED runVars

GetStats ==
    \E issue_time \in IssueTimes, gauge_ID \in AnalysisGauges,
       delta \in Deltas, stat \in StatNames :
        /\ called.fn # "get_stats_for_forecast_range"
        /\ called' = [fn |-> "get_stats_for_forecast_range", issue_time |-> issue_time,
                      gauge_ID |-> gauge_ID, delta |-> delta, stat |-> stat]
        /\ result' = get_stats_for_forecast_range(input, issue_time, gauge_ID, delta, stat)
        /\ UNCHANGED <<input, runVars>>

NextAnalyze == MakeSubset \/ GetStats

SpecAnalyze == InitAnalyze /\ [][NextAnalyze]_vars

\* The rows of a table with the given gauge and the given issue day,
\* their issue dates normalized to midnight, in table order.
RowsOf(table, gauge, day) ==
    LET Match(r) == r.gaugeId = gauge /\ r.issue_date.day = day
        rows == SelectSeq(table.rows, Match)
    IN [k \in 1..Len(rows) |-> [rows[k] EXCEPT !.issue_date = [day |-> day, tod |-> 0]]]

\* C4: called with a midnight date d, make_subset_for_gauge_and_issue_time
\* returns exactly the rows of the table it was given whose gauge equals
\* `gauge` and whose issue date, normalized to midnight, equals d (an empty
\* table when there is none).
C4_SubsetExact ==
    [][(/\ called'.fn = "make_subset_for_gauge_and_issue_time"
        /\ called'.issue_date.tod = 0)
       => (/\ result'.ok
           /\ result'.val = RowsOf(input, called'.gauge, called'.issue_date.day))]_vars

C4_Witness ==
    /\ called.fn = "make_subset_for_gauge_and_issue_time"
    /\ called.issue_date.tod = 0
    /\ Len(result.val) = 1
    /\ Len(input.rows) = 2
    /\ \E k \in 1..2 : input.rows[k].gaugeId # called.gauge

\* C12: make_subset_for_gauge_and_issue_time leaves the table of its caller
\* unchanged: the same rows, gauge identifiers of the same type, issue dates
\* with their time of day.
C12_SubsetLeavesTable ==
    [][called'.fn = "make_subset_for_gauge_and_issue_time" => input' = input]_vars

\* C28: make_subset_for_gauge_and_issue_time normalizes the issue dates of
\* the table and not its issue_date argument: called with a time of day
\* other than midnight it returns an empty table, also when the table
\* holds rows of that gauge on that date.
C28_ArgumentNotNormalized ==
    [][(/\ called'.fn = "make_subset_for_gauge_and_issue_time"
        /\ called'.issue_date.tod # 0)
       => (/\ result'.ok
           /\ result'.val = <<>>
           /\ \A k \in DOMAIN input'.rows : input'.rows[k].issue_date.tod = 0)]_vars

C28_Witness ==
    /\ called.fn = "make_subset_for_gauge_and_issue_time"
    /\ called.issue_date.tod = 1
    /\ RowsOf(input, called.gauge, called.issue_date.day) # <<>>
    /\ result.val = <<>>

\* C29: get_stats_for_forecast_range never modifies the table of its
\* caller, whether it returns or raises: the gauge identifiers and the
\* issue dates are as before the call.
C29_StatsLeavesTable ==
    [][called'.fn = "get_stats_for_forecast_range" => input' = input]_vars

C29_Witness ==
    /\ called.fn = "get_stats_for_forecast_range"
    /\ result.ok
    /\ Len(result.val) >= 1
    /\ ~input.gaugeId_is_str
    /\ \E k \in DOMAIN input.rows : input.rows[k].issue_date.tod # 0

\* The indices of the caller's rows with the gauge of the call and issue day d.
GroupOf(d) ==
    {i \in DOMAIN input.rows :
        input.rows[i].gaugeId = called.gauge_ID /\ input.rows[i].issue_date.day = d}

RECURSIVE SumOver(_, _)
SumOver(S, f) ==
    IF S = {} THEN 0
    ELSE LET i == CHOOSE i \in S : TRUE IN f[i] + SumOver(S \ {i}, f)

\* v is the statistic `stat` of the forecast values of the rows S of the
\* caller's table, by the textbook definitions: the least and the greatest
\* value, the sum over the count, and the squared distances to the mean
\* over the count less one (undefined for one value), or its square root.
IsStatOf(stat, v, S) ==
    LET n == Cardinality(S)
        x == [i \in S |-> input.rows[i].fc_value]
        total == SumOver(S, x)
        sqdist == SumOver(S, [i \in S |-> (n * x[i] - total) * (n * x[i] - total)])
        IsVar == IF n = 1 THEN v.nan
                 ELSE ~v.nan /\ v.den > 0 /\ v.num * (n * n * (n - 1)) = v.den * sqdist
    IN CASE stat = "min" ->
               /\ ~v.nan /\ ~v.sqrt /\ v.den = 1
               /\ \E i \in S : x[i] = v.num
               /\ \A i \in S : v.num <= x[i]
         [] stat = "max" ->
               /\ ~v.nan /\ ~v.sqrt /\ v.den = 1
               /\ \E i \in S : x[i] = v.num
               /\ \A i \in S : v.num >= x[i]
         [] stat = "mean" -> ~v.nan /\ ~v.sqrt /\ v.den > 0 /\ v.num * n = v.den * total
         [] stat = "var" -> IsVar /\ ~v.sqrt
         [] stat = "dev" -> IsVar /\ (v.sqrt <=> ~v.nan)

\* C5: with delta >= 1 and a recognized statistic, every entry of the
\* result is keyed by a midnight issue date d with t0 <= d < t0 + delta, no
\* date twice, and its value is the statistic over exactly the forecast
\* values of the caller's rows with the gauge of the call and issue date d.
C5_StatsOverWindow ==
    (/\ called.fn = "get_stats_for_forecast_range"
     /\ called.delta >= 1
     /\ called.stat \in Stats
     /\ result.ok)
    => /\ \A k \in DOMAIN result.val :
             LET d == result.val[k].issue_date IN
             /\ d.tod = 0
             /\ called.issue_time.day <= d.day
             /\ d.day < called.issue_time.day + called.delta
             /\ GroupOf(d.day) # {}
             /\ IsStatOf(called.stat, result.val[k].value, GroupOf(d.day))
       /\ \A k, l \in DOMAIN result.val :
             k # l => result.val[k].issue_date # result.val[l].issue_date

C5_Witness ==
    /\ called.fn = "get_stats_for_forecast_range"
    /\ called.delta = 1
    /\ called.stat = "mean"
    /\ result.ok
    /\ Len(result.val) = 1
    /\ Cardinality(GroupOf(called.issue_time.day)) = 2
    /\ result.val[1].value = Frac(255, 2)

RangeExceeded(res) ==
    /\ ~res.ok
    /\ res.exc.msg = "Issue time + delta exceeds the max forecasted date in the dataframe"

\* The greatest forecast date of the caller's table, at midnight.
MaxForecastDate ==
    LET top == CHOOSE i \in DOMAIN input.rows :
                   \A j \in DOMAIN input.rows : input.rows[j].fc_date <= input.rows[i].fc_date
    IN [day |-> input.rows[top].fc_date, tod |-> 0]

\* C6: get_stats_for_forecast_range raises the range error whenever
\* issue_time + (delta + 4) days is later than the greatest forecast date
\* of the table, and does not raise it when the two are equal.
C6_RangeCheck ==
    called.fn = "get_stats_for_forecast_range" =>
        LET limit == [day |-> called.issue_time.day + called.delta + 4,
                      tod |-> called.issue_time.tod]
        IN /\ Later(limit, MaxForecastDate) => RangeExceeded(result)
           /\ limit = MaxForecastDate => ~RangeExceeded(result)

C6_Witness ==
    /\ called.fn = "get_stats_for_forecast_range"
    /\ called.delta = 2
    /\ called.issue_time = [day |-> 1, tod |-> 0]
    /\ MaxForecastDate = [day |-> 7, tod |-> 0]
    /\ result.ok

\* The rows of the caller's table that the window of the call selects: the
\* gauge of the call, an issue day among t0 .. t0 + (delta - 1).
Selected ==
    {i \in DOMAIN input.rows :
        /\ input.rows[i].gaugeId = called.gauge_ID
        /\ input.rows[i].issue_date.day \in
              called.issue_time.day..(called.issue_time.day + called.delta - 1)}

\* C13: when get_stats_for_forecast_range passes its range check and
\* returns (delta >= 1), the result holds exactly delta entries, one for
\* each issue date t0, t0 + 1, ..., t0 + (delta - 1): no requested issue
\* date is missing.
C13_OneEntryPerIssueDate ==
    (/\ called.fn = "get_stats_for_forecast_range"
     /\ called.delta >= 1
     /\ result.ok)
    => /\ Len(result.val) = called.delta
       /\ \A n \in 0..(called.delta - 1) :
             \E k \in DOMAIN result.val :
                result.val[k].issue_date = [day |-> called.issue_time.day + n, tod |-> 0]

\* C14: the result of get_stats_for_forecast_range holds one value per
\* forecast date of the selected rows, each the statistic over the values
\* the issue dates of the window give for that forecast date.
C14_OneValuePerForecastDate ==
    (/\ called.fn = "get_stats_for_forecast_range"
     /\ called.delta >= 1
     /\ called.stat \in Stats
     /\ result.ok)
    => LET fc_dates == {input.rows[i].fc_date : i \in Selected} IN
       /\ Len(result.val) = Cardinality(fc_dates)
       /\ \A f \in fc_dates :
             \E k \in DOMAIN result.val :
                /\ result.val[k].issue_date = [day |-> f, tod |-> 0]
                /\ IsStatOf(called.stat, result.val[k].value,
                            {i \in Selected : input.rows[i].fc_date = f})

\* The range check of the call passes.
WithinRange ==
    ~Later([day |-> called.issue_time.day + called.delta + 4,
            tod |-> called.issue_time.tod],
           MaxForecastDate)

\* C15: called with a statistic other than min, max, mean, dev or var,
\* get_stats_for_forecast_range returns no value: it raises, and raises the
\* 'Statistic not recognized' error whenever the range check passes and
\* delta >= 1.
C15_UnknownStatisticRaises ==
    (called.fn = "get_stats_for_forecast_range" /\ called.stat \notin Stats)
    => /\ ~result.ok
       /\ (WithinRange /\ called.delta >= 1)
          => (/\ result.exc.cls = "ValueError"
              /\ result.exc.msg = "Statistic {stat} not recognized")

C15_Witness ==
    /\ called.fn = "get_stats_for_forecast_range"
    /\ called.stat = "median"
    /\ called.delta = 2
    /\ WithinRange
    /\ Selected # {}
    /\ result.exc.msg = "Statistic {stat} not recognized"

\* C26: the range check takes issue_time as passed, time of day included,
\* while the rows are selected by issue_time normalized to midnight: when
\* the date of issue_time plus (delta + 4) days is the greatest forecast
\* date, a call with a time of day after midnight raises the range error
\* and the call at midnight returns a result.
C26_CheckKeepsTimeOfDay ==
    called.fn = "get_stats_for_forecast_range" =>
        /\ (called.issue_time.day + called.delta + 4 = MaxForecastDate.day) =>
              /\ called.issue_time.tod > 0 => RangeExceeded(result)
              /\ (called.issue_time.tod = 0 /\ called.delta >= 1 /\ called.stat \in Stats)
                    => result.ok
        /\ result.ok =>
              /\ \A k \in DOMAIN result.val : result.val[k].issue_date.tod = 0
              /\ result = get_stats_for_forecast_range(
                              input, [day |-> called.issue_time.day, tod |-> 0],
                              called.gauge_ID, called.delta, called.stat)

C26_Witness ==
    /\ called.fn = "get_stats_for_forecast_range"
    /\ called.issue_time = [day |-> 1, tod |-> 1]
    /\ called.delta = 2
    /\ MaxForecastDate.day = 7
    /\ called.stat = "mean"
    /\ RangeExceeded(result)
    /\ get_stats_for_forecast_range(input, [day |-> 1, tod |-> 0], called.gauge_ID, 2, "mean").ok

\* The call raises the error of a concatenation of nothing.
NothingToConcatenate ==
    /\ ~result.ok
    /\ result.exc.cls = "ValueError"
    /\ result.exc.msg = "No objects to concatenate"

\* C30: when the range check passes, get_stats_for_forecast_range with
\* delta <= 0 takes no subset and raises the error of a concatenation of
\* nothing, for every statistic name, recognized or not; with delta >= 1,
\* a recognized statistic name and no row of the gauge in the window, it
\* returns an empty result.
C30_NoSubsetRaises ==
    (called.fn = "get_stats_for_forecast_range" /\ WithinRange)
    => /\ called.delta <= 0 => NothingToConcatenate
       /\ (called.delta >= 1 /\ Selected = {} /\ called.stat \in Stats)
          => (result.ok /\ result.val = <<>>)

\* C30 as stated: the empty result for delta >= 1 whatever the statistic
\* name.
C30_AsStated ==
    (called.fn = "get_stats_for_forecast_range" /\ WithinRange)
    => /\ called.delta <= 0 => NothingToConcatenate
       /\ (called.delta >= 1 /\ Selected = {})
          => (result.ok /\ result.val = <<>>)

C30_Witness ==
    /\ called.fn = "get_stats_for_forecast_range"
    /\ WithinRange
    /\ called.delta = -1
    /\ called.stat = "median"
    /\ Selected = {}
    /\ NothingToConcatenate
    /\ get_stats_for_forecast_range(input, called.issue_time, called.gauge_ID,
                                    1, "min") = Return(<<>>)


(***************************************************************************)
(* z_normalise.  Arithmetic is exact: an element of the result is NaN, an  *)
(* infinity, or sign * sqrt(sq_num / sq_den).                              *)
(***************************************************************************)
ZNaN == [nan |-> TRUE, inf |-> FALSE, sign |-> 0, sq_num |-> 0, sq_den |-> 1]

Sign(d) == IF d > 0 THEN 1 ELSE IF d < 0 THEN -1 ELSE 0

\* (x - mean) / std for one element, with mean = total / n and
\* std = sqrt(var.num / var.den): a zero or NaN numerator over zero is NaN.
Quotient(x, n, total, var) ==
    LET d == n * x - total IN
    IF var.nan THEN ZNaN
    ELSE IF var.num = 0
    THEN (IF d = 0 THEN ZNaN
          ELSE [nan |-> FALSE, inf |-> TRUE, sign |-> Sign(d), sq_num |-> 0, sq_den |-> 1])
    ELSE [nan |-> FALSE, inf |-> FALSE, sign |-> Sign(d),
          sq_num |-> d * d * var.den, sq_den |-> n * n * var.num]

\* The variance over the count, not the count less one.
PopulationVar(values) ==
    LET n == Len(values) IN
    IF n < 1 THEN NaN
    ELSE Frac(n * SumSq(values) - Sum(values) * Sum(values), n * n)

\* A variant that divides by the population standard deviation.
z_normalise_Population(series) ==
    [k \in 1..Len(series) |->
        Quotient(series[k], Len(series), Sum(series), PopulationVar(series))]

\* src/analyze/statistics.py, z_normalise: Series.std() is the sample
\* standard deviation (ddof = 1).
z_normalise(series) ==
    [k \in 1..Len(series) |->
        Quotient(series[k], Len(series), Sum(series), Var(series))]

(***************************************************************************)
(* z_normalise under study: series of at most MaxSeries values.            *)
(***************************************************************************)
MaxSeries == 3

SeriesValues == {1, 2, 3, 5}

InitNormalise ==
    /\ \E n \in 0..MaxSeries : \E series \in [1..n -> SeriesValues] : input = series
    /\ called = NoCall /\ result = NoResult /\ RunIdle

ZNormalise ==
    /\ called = NoCall
    /\ called' = [fn |-> "z_normalise"]
    /\ result' = Return(z_normalise(input))
    /\ UNCHANGED <<input, runVars>>

NextNormalise == ZNormalise

SpecNormalise == InitNormalise /\ [][NextNormalise]_vars

\* z is (x - mean) / (sample standard deviation) of the series s, by the
\* textbook definitions: the squared distances to the mean over the count
\* less one.
IsZScore(z, x, s) ==
    LET n == Len(s)
        total == SumOver(DOMAIN s, s)
        sqdist == SumOver(DOMAIN s, [i \in DOMAIN s |-> (n * s[i] - total) * (n * s[i] - total)])
    IN IF n < 2 \/ sqdist = 0 THEN z.nan
       ELSE /\ ~z.nan /\ ~z.inf
            /\ z.sign = Sign(n * x - total)
            /\ z.sq_den > 0
            \* z^2 = (x - mean)^2 / (sqdist / (n^2 (n - 1)))
            /\ z.sq_num * sqdist = z.sq_den * (n * x - total) * (n * x - total) * (n - 1)

\* The element z is the integer v.
IsInteger(z, v) ==
    ~z.nan /\ ~z.inf /\ z.sign = Sign(v) /\ z.sq_num = v * v * z.sq_den

UpperLetters == {"M", "P"}
LowerLetters == {"a", "e", "i", "l", "m", "p", "r", "u"}
Letters == UpperLetters \cup LowerLetters

isupper(c) == c \in UpperLetters

\* str.isalpha: at least one character and every character alphabetic.
isalpha(s) == Len(s) > 0 /\ \A i \in 1..Len(s) : s[i] \in Letters

LowerChar(c) == CASE c = "M" -> "m" [] c = "P" -> "p" [] OTHER -> c

lower(s) == [i \in 1..Len(s) |-> LowerChar(s[i])]

SystemExit(code) == [cls |-> "SystemExit", msg |-> "", status |-> code, text |-> NoText]

\* The outcome of a validator: it returns, or it prints and raises.
Valid(v) == [ok |-> TRUE, val |-> v, exc |-> NoExc, printed |-> <<>>]
Invalid(e, printed) == [ok |-> FALSE, val |-> <<>>, exc |-> e, printed |-> printed]

parse_args(av) ==
    IF Len(av) # 4
    THEN Invalid(SystemExit(1),
                 <<"Invalid number of arguments, please provide country, start date, and end date",
                   "Usage: python3 main.py <country> <a> <b>",
                   "Example: python3 main.py Mali 01-10-2024 10-10-2024">>)
    ELSE Valid(<<av[2], av[3], av[4]>>)

validate_date(date) ==
    IF date.parses
    THEN Valid(date.day)
    ELSE Invalid(SystemExit(1),
                 <<"Error: Invalid date format '{date}', expected format is DD-MM-YYYY">>)

\* A variant that also rejects a start date equal to the end date.
validate_dates_RejectsEqual(a, b) ==
    IF a >= b
    THEN Invalid(SystemExit(1), <<"Error: Start date '{a}' is after end date '{b}'">>)
    ELSE Valid(<<>>)

validate_dates(a, b) ==
    IF a > b
    THEN Invalid(SystemExit(1), <<"Error: Start date '{a}' is after end date '{b}'">>)
    ELSE Valid(<<>>)

\* country[0] on the empty string raises IndexError before either test runs.
validate_country(country) ==
    IF country = <<>>
    THEN Invalid(Exc("IndexError", "string index out of range"), <<>>)
    ELSE IF ~isupper(country[1]) \/ ~isalpha(country)
    THEN Invalid(SystemExit(1),
                 <<"Error: Country '{country}' must start with a capital letter and contain only alphabetic characters">>)
    ELSE Valid(country)

validate_args(av) ==
    LET parsed == parse_args(av) IN
    IF ~parsed.ok THEN parsed ELSE
    LET a == validate_date(parsed.val[2]) IN
    IF ~a.ok THEN a ELSE
    LET b == validate_date(parsed.val[3]) IN
    IF ~b.ok THEN b ELSE
    LET order == validate_dates(a.val, b.val) IN
    IF ~order.ok THEN order ELSE
    LET country == validate_country(parsed.val[1]) IN
    IF ~country.ok THEN country ELSE
    Valid([country |-> country.val, a |-> a.val, b |-> b.val])

(***************************************************************************)
(* handle_exception: the isinstance chain over the exception's classes.    *)
(***************************************************************************)
Bases(cls) ==
    CASE cls = "HTTPError" -> {"HTTPError", "RequestException", "OSError", "Exception"}
      [] cls = "JSONDecodeError" -> {"JSONDecodeError", "ValueError", "Exception"}
      [] cls = "KeyError" -> {"KeyError", "LookupError", "Exception"}
      [] cls = "IndexError" -> {"IndexError", "LookupError", "Exception"}
      [] cls = "SystemExit" -> {"SystemExit"}
      [] OTHER -> {cls, "Exception"}

isinstance(e, cls) == cls \in Bases(e.cls)

handle_exception(e) ==
    IF isinstance(e, "HTTPError") THEN "HTTPError: {exc}"
    ELSE IF isinstance(e, "JSONDecodeError") THEN "JSONDecodeError: {exc}"
    ELSE IF isinstance(e, "GaugesNotAvailableError") THEN "GaugesNotAvailableError: {exc}"
    ELSE IF isinstance(e, "GaugeModelsNotAvailableError") THEN "GaugeModelsNotAvailableError: {exc}"
    ELSE IF isinstance(e, "ForecastsNotAvailableError") THEN "ForecastsNotAvailableError: {exc}"
    ELSE "An unexpected error occurred: {exc}"


(***************************************************************************)
(* The fetchers of the extract package: request, verify, convert.          *)
(***************************************************************************)
Mali == <<"M", "a", "l", "i">>
Peru == <<"P", "e", "r", "u">>

\* ../data/country_code_conversions/country_codes.json: Peru has no entry.
country_codes == (Mali :> "ML")

get_json_file(country) ==
    IF country \in DOMAIN country_codes
    THEN Return(country_codes[country])
    ELSE Raise(Exc("KeyError", "{country}"))

make_request_ListGauges(country_code) ==
    [endpoint |-> "gauges:searchGaugesByArea", method |-> "POST",
     params |-> <<country_code>>]

\* A variant that makes an empty table of an empty list.
convert_ListGauges_to_df_EmptyTable(gauges) ==
    Return([k \in 1..Len(gauges) |->
               [gaugeId |-> gauges[k].gaugeId,
                latitude |-> gauges[k].location.latitude,
                longitude |-> gauges[k].location.longitude]])

\* pd.DataFrame([]) has no 'location' column.
convert_ListGauges_to_df(gauges) ==
    IF gauges = <<>>
    THEN Raise(Exc("KeyError", "location"))
    ELSE Return([k \in 1..Len(gauges) |->
                    [gaugeId |-> gauges[k].gaugeId,
                     latitude |-> gauges[k].location.latitude,
                     longitude |-> gauges[k].location.longitude]])

get_ListGauges(response) ==
    LET v == verify_ListGauges(response) IN
    IF v.ok THEN convert_ListGauges_to_df(v.val) ELSE v

tolist(rows) == [k \in 1..Len(rows) |-> rows[k].gaugeId]

generate_model_names(df_gauges) ==
    [k \in 1..Len(df_gauges) |-> <<"names=gaugeModels/", tolist(df_gauges)[k]>>]

make_request_GetGaugeModel(df_gauges) ==
    [endpoint |-> "gaugeModels:batchGet", method |-> "GET",
     params |-> generate_model_names(df_gauges)]

get_GetGaugeModel(response) ==
    LET v == verify_GetGaugeModel(response) IN
    IF v.ok THEN convert_GetGaugeModel_to_df(v.val) ELSE v

\* A variant that queries the gauges of the listing.
make_request_QueryGaugeForecasts_Listed(gauge_ids, a, b) ==
    [endpoint |-> "gauges:queryGaugeForecasts", method |-> "GET",
     params |-> <<[k \in 1..Len(tables.df_gauges.rows) |->
                      tables.df_gauges.rows[k].gaugeId], a, b>>]

make_request_QueryGaugeForecasts(gauge_ids, a, b) ==
    [endpoint |-> "gauges:queryGaugeForecasts", method |-> "GET",
     params |-> <<gauge_ids, a, b>>]

\* extract/export.py imports get_QueryGaugeForecasts from call_QueryGaugeForecasts;
\* the module of that name in the sources is extract_data's.
get_QueryGaugeForecasts(response) ==
    LET v == verify_response_QueryGaugeForecasts(response) IN
    IF v.ok THEN convert_QueryGaugeForecasts_to_df(v.val) ELSE v

(***************************************************************************)
(* Export.  A directory is a root and the country part below it; a file is *)
(* its directory and the parts of its name.                                *)
(***************************************************************************)
ListGaugesDir == [root |-> "../data/processed/ListGauges/", sub |-> <<>>]
GetGaugeModelDir == [root |-> "../data/processed/GetGaugeModel/", sub |-> <<>>]
ForecastsDir(country) == [root |-> "../data/floods_data/", sub |-> lower(country)]

ListGaugesPath(country) ==
    [dir |-> ListGaugesDir, stem |-> country, a |-> 0, b |-> 0,
     suffix |-> "_gauges_listed.csv", index |-> FALSE]
GetGaugeModelPath(country) ==
    [dir |-> GetGaugeModelDir, stem |-> country, a |-> 0, b |-> 0,
     suffix |-> "_gauge_models_metadata.csv", index |-> FALSE]
ForecastsPath(country, a, b) ==
    [dir |-> ForecastsDir(country), stem |-> <<>>, a |-> a, b |-> b,
     suffix |-> "{a}_to_{b}.csv", index |-> TRUE]

\* df.to_csv raises OSError when the directory of the path does not exist.
export_data_to_csv(path, existing) ==
    IF path.dir \in existing
    THEN Return(path)
    ELSE Raise(Exc("OSError", "Cannot save file into a non-existent directory"))

makedirs(dir, existing) == existing \cup {dir}


(***************************************************************************)
(* A run: main on a command line, or the orchestrator called directly.     *)
(* pc: "main" -> "ListGauges" -> "GetGaugeModel" -> "QueryGaugeForecasts"  *)
(* -> "returned" -> "done"; "raised" when an exception leaves the          *)
(* orchestrator or the validators, "exited" when sys.exit ends the process.*)
(***************************************************************************)
NoArgs == [country |-> <<>>, a |-> 0, b |-> 0, export |-> FALSE]
NoTable == [fetched |-> FALSE, rows |-> <<>>]
NoTables == [df_gauges |-> NoTable, df_gauge_models |-> NoTable,
             df_gauge_forecasts |-> NoTable]
Table(rows) == [fetched |-> TRUE, rows |-> rows]

\* The calls of the orchestrator follow one another in program order.
StageAfter_ForecastsFirst(stage) ==
    CASE stage = "ListGauges" -> "QueryGaugeForecasts"
      [] stage = "QueryGaugeForecasts" -> "GetGaugeModel"
      [] stage = "GetGaugeModel" -> "returned"

StageAfter(stage) ==
    CASE stage = "ListGauges" -> "GetGaugeModel"
      [] stage = "GetGaugeModel" -> "QueryGaugeForecasts"
      [] stage = "QueryGaugeForecasts" -> "returned"

\* An exception raised in a stage leaves the orchestrator: it has no try.
Propagate_Swallow(res, next) == next

Propagate(res, next) == IF res.ok THEN next ELSE "raised"

\* What a stage comes to: the fetcher's exception, else the export's.
Outcome(res, exported) ==
    IF ~res.ok THEN res ELSE IF args.export THEN exported ELSE res

Received(request, response) ==
    [endpoint |-> request.endpoint, method |-> request.method,
     params |-> request.params, response |-> response]

DateArgs == {[parses |-> FALSE, day |-> 0], [parses |-> TRUE, day |-> 1],
             [parses |-> TRUE, day |-> 2]}

CountryArgs == {<<>>, Mali, Peru, <<"m", "a", "l", "i">>, <<"M", "a", "1">>}

CommandLines ==
    {<<"main.py", c, a, b>> : c \in CountryArgs, a \in DateArgs, b \in DateArgs}
    \cup {<<"main.py", Mali, [parses |-> TRUE, day |-> 1]>>}
    \cup {<<"main.py", Mali, [parses |-> TRUE, day |-> 1],
            [parses |-> TRUE, day |-> 2], [parses |-> TRUE, day |-> 2]>>}

Directories == {ListGaugesDir, GetGaugeModelDir, ForecastsDir(Mali)}

Gauge(g) == [gaugeId |-> g, location |-> [latitude |-> 1, longitude |-> 2]]

Object(key, payload) == [kind |-> "object", keys |-> {key}, val |-> payload]

Unparsable == [kind |-> "invalid", keys |-> {}, val |-> <<>>]

RunStatuses == {200, 500}

ListGaugesResponses ==
    {[status_code |-> s, text |-> t] :
        s \in RunStatuses,
        t \in {Unparsable, Object("error", <<>>), Object("gauges", <<>>),
               Object("gauges", <<Gauge("G1")>>),
               Object("gauges", <<Gauge("G1"), Gauge("G2")>>)}}

Model(g, with) ==
    [gaugeId |-> g, has_thresholds |-> with,
     thresholds |-> IF with THEN [k \in ThresholdKeys |-> Num(5)] ELSE NoThresholds]

GetGaugeModelResponses ==
    {[status_code |-> s, text |-> t] :
        s \in RunStatuses,
        t \in {Unparsable, Object("error", <<>>), Object("gaugeModels", <<>>),
               Object("gaugeModels", <<Model("G1", TRUE)>>),
               Object("gaugeModels", <<Model("G1", TRUE), Model("G2", FALSE)>>)}}

QueryGaugeForecastsResponses ==
    {[status_code |-> s, text |-> t] :
        s \in RunStatuses,
        t \in {Unparsable, Object("error", <<>>), Object("forecasts", <<>>),
               Object("forecasts", ExamplePayload)}}

Init ==
    /\ FnIdle
    /\ \/ pc = "main" /\ argv \in CommandLines /\ args = NoArgs
       \/ /\ pc = "ListGauges" /\ argv = <<>>
          /\ \E c \in {Mali, Peru}, e \in BOOLEAN :
                args = [country |-> c, a |-> 1, b |-> 2, export |-> e]
    /\ dirs \in SUBSET Directories
    /\ files = <<>> /\ requests = <<>> /\ stdout = <<>> /\ exc = NoExc
    /\ tables = NoTables /\ exit_code = -1

\* main, lines 12-15: the warning, then validate_args.  sys.exit raises
\* SystemExit, which `except Exception` does not catch.
ValidateArgs ==
    /\ pc = "main"
    /\ LET v == validate_args(argv) IN
       /\ stdout' = <<"BEWARE: as of October 2024, the API contains no data issued before July 2024">>
                    \o v.printed
       /\ args' = IF v.ok
                  THEN [country |-> v.val.country, a |-> v.val.a, b |-> v.val.b,
                        export |-> TRUE]
                  ELSE args
       /\ exc' = IF v.ok THEN exc ELSE v.exc
       /\ pc' = IF v.ok THEN "ListGauges"
                ELSE IF isinstance(v.exc, "Exception") THEN "raised" ELSE "exited"
       /\ exit_code' = IF ~v.ok /\ ~isinstance(v.exc, "Exception")
                       THEN v.exc.status ELSE exit_code
    /\ UNCHANGED <<fnVars, argv, dirs, files, requests, tables>>


\* A variant that leaves the export of the gauges for later.
FetchListGauges_ExportLater ==
    /\ pc = "ListGauges"
    /\ stdout' = Append(stdout, "Extracting data for {country} from {a} to {b}")
    /\ LET code == get_json_file(args.country) IN
       IF ~code.ok
       THEN /\ exc' = code.exc
            /\ pc' = Propagate(code, StageAfter("ListGauges"))
            /\ UNCHANGED <<requests, tables, files>>
       ELSE \E response \in ListGaugesResponses :
               LET res == get_ListGauges(response)
                   path == ListGaugesPath(args.country)
                   exported == export_data_to_csv(path, dirs)
                   out == Outcome(res, exported)
               IN  /\ requests' = Append(requests,
                           Received(make_request_ListGauges(code.val), response))
                   /\ tables' = IF res.ok
                                THEN [tables EXCEPT !.df_gauges = Table(res.val)]
                                ELSE tables
                   /\ files' = files
                   /\ exc' = IF out.ok THEN exc ELSE out.exc
                   /\ pc' = Propagate(out, StageAfter("ListGauges"))
    /\ UNCHANGED <<fnVars, argv, args, dirs, exit_code>>

\* extract_country_data_for_time_delta, lines 50-57.
FetchListGauges ==
    /\ pc = "ListGauges"
    /\ stdout' = Append(stdout, "Extracting data for {country} from {a} to {b}")
    /\ LET code == get_json_file(args.country) IN
       IF ~code.ok
       THEN /\ exc' = code.exc
            /\ pc' = Propagate(code, StageAfter("ListGauges"))
            /\ UNCHANGED <<requests, tables, files>>
       ELSE \E response \in ListGaugesResponses :
               LET res == get_ListGauges(response)
                   path == ListGaugesPath(args.country)
                   exported == export_data_to_csv(path, dirs)
                   out == Outcome(res, exported)
               IN  /\ requests' = Append(requests,
                           Received(make_request_ListGauges(code.val), response))
                   /\ tables' = IF res.ok
                                THEN [tables EXCEPT !.df_gauges = Table(res.val)]
                                ELSE tables
                   /\ files' = IF res.ok /\ args.export /\ exported.ok
                               THEN Append(files, path) ELSE files
                   /\ exc' = IF out.ok THEN exc ELSE out.exc
                   /\ pc' = Propagate(out, StageAfter("ListGauges"))
    /\ UNCHANGED <<fnVars, argv, args, dirs, exit_code>>

\* extract_country_data_for_time_delta, lines 58-63.
FetchGetGaugeModel ==
    /\ pc = "GetGaugeModel"
    /\ \E response \in GetGaugeModelResponses :
          LET res == get_GetGaugeModel(response)
              path == GetGaugeModelPath(args.country)
              exported == export_data_to_csv(path, dirs)
              out == Outcome(res, exported)
          IN  /\ requests' = Append(requests,
                      Received(make_request_GetGaugeModel(tables.df_gauges.rows), response))
              /\ tables' = IF res.ok
                           THEN [tables EXCEPT !.df_gauge_models = Table(res.val)]
                           ELSE tables
              /\ files' = IF res.ok /\ args.export /\ exported.ok
                          THEN Append(files, path) ELSE files
              /\ exc' = IF out.ok THEN exc ELSE out.exc
              /\ pc' = Propagate(out, StageAfter("GetGaugeModel"))
    /\ UNCHANGED <<fnVars, argv, args, dirs, stdout, exit_code>>

\* extract_country_data_for_time_delta, lines 64-77.
FetchQueryGaugeForecasts ==
    /\ pc = "QueryGaugeForecasts"
    /\ \E response \in QueryGaugeForecastsResponses :
          LET res == get_QueryGaugeForecasts(response)
              path == ForecastsPath(args.country, args.a, args.b)
              made == makedirs(ForecastsDir(args.country), dirs)
              exported == export_data_to_csv(path, made)
              out == Outcome(res, exported)
          IN  /\ requests' = Append(requests,
                      Received(make_request_QueryGaugeForecasts(
                                   tolist(tables.df_gauge_models.rows), args.a, args.b),
                               response))
              /\ tables' = IF res.ok
                           THEN [tables EXCEPT !.df_gauge_forecasts = Table(res.val)]
                           ELSE tables
              /\ dirs' = IF res.ok /\ args.export THEN made ELSE dirs
              /\ files' = IF res.ok /\ args.export /\ exported.ok
                          THEN Append(files, path) ELSE files
              /\ exc' = IF out.ok THEN exc ELSE out.exc
              /\ pc' = Propagate(out, StageAfter("QueryGaugeForecasts"))
    /\ UNCHANGED <<fnVars, argv, args, stdout, exit_code>>

\* main, lines 19-22: the orchestrator returned to main.
PrintSuccess ==
    /\ pc = "returned" /\ argv # <<>>
    /\ stdout' = Append(stdout, "Extraction succesful for {country} with issue date {a} and {b - a} issue days of data")
    /\ pc' = "done"
    /\ exit_code' = 0
    /\ UNCHANGED <<fnVars, argv, args, dirs, files, requests, exc, tables>>

\* A variant that raises the exception again once it is reported.
HandleException_Reraise ==
    /\ pc = "raised" /\ argv # <<>>
    /\ stdout' = Append(stdout, handle_exception(exc))
    /\ pc' = "exited"
    /\ exit_code' = 1
    /\ UNCHANGED <<fnVars, argv, args, dirs, files, requests, exc, tables>>

\* main, lines 23-24: an Exception reached main; main then returns.
HandleException ==
    /\ pc = "raised" /\ argv # <<>>
    /\ stdout' = Append(stdout, handle_exception(exc))
    /\ pc' = "done"
    /\ exit_code' = 0
    /\ UNCHANGED <<fnVars, argv, args, dirs, files, requests, exc, tables>>

Next ==
    \/ ValidateArgs
    \/ FetchListGauges
    \/ FetchGetGaugeModel
    \/ FetchQueryGaugeForecasts
    \/ PrintSuccess
    \/ HandleException

Spec == Init /\ [][Next]_vars


(***************************************************************************)
(* Properties of a run.                                                    *)
(***************************************************************************)
ProviderOrder ==
    <<"gauges:searchGaugesByArea", "gaugeModels:batchGet", "gauges:queryGaugeForecasts">>

\* C1: in every run of the orchestrator the endpoints are requested in the
\* order search-gauges, batch-get-gauge-models, query-gauge-forecasts, each
\* at most once, and a request has been issued only when every earlier
\* fetcher has returned its table.
C1_RequestOrder ==
    /\ Len(requests) <= Len(ProviderOrder)
    /\ \A k \in 1..Len(requests) : requests[k].endpoint = ProviderOrder[k]
    /\ Len(requests) >= 2 => tables.df_gauges.fetched
    /\ Len(requests) >= 3 => tables.df_gauge_models.fetched

C1_Witness ==
    /\ pc = "returned"
    /\ Len(requests) = 3
    /\ tables.df_gauges.fetched /\ tables.df_gauge_models.fetched
    /\ tables.df_gauge_forecasts.fetched

Malformed(av) ==
    \/ Len(av) # 4
    \/ ~av[3].parses
    \/ ~av[4].parses
    \/ av[3].day > av[4].day
    \/ av[2] = <<>>
    \/ av[2][1] \notin UpperLetters
    \/ \E i \in 1..Len(av[2]) : av[2][i] \notin Letters

Terminated == pc \in {"exited", "done"}

\* C8: for every malformed command line (wrong number of arguments, a date
\* that does not parse, a start date after the end date, a country that
\* does not start with an uppercase letter or is not purely alphabetic, the
\* empty string included) main prints a message and the process ends with a
\* non-zero exit code, never with a normal return of main.
C8_MalformedExitsNonZero ==
    (argv # <<>> /\ Malformed(argv) /\ Terminated) =>
        /\ pc = "exited"
        /\ exit_code # 0
        /\ Len(stdout) >= 2

\* A fetcher raised: an exception left the orchestrator that is not the
\* export's.
FetcherRaised == args # NoArgs /\ exc # NoExc /\ exc.cls # "OSError"

Fetched ==
    (IF tables.df_gauges.fetched THEN 1 ELSE 0)
    + (IF tables.df_gauge_models.fetched THEN 1 ELSE 0)
    + (IF tables.df_gauge_forecasts.fetched THEN 1 ELSE 0)

\* C9: if a fetcher raises during an orchestrator run, the failure leaves
\* the orchestrator at once: no endpoint is requested twice, no later
\* fetcher is called, and the orchestrator returns no tables.
C9_FailurePropagates ==
    FetcherRaised =>
        /\ pc \in {"raised", "done"}
        /\ \A j, k \in 1..Len(requests) :
              requests[j].endpoint = requests[k].endpoint => j = k
        /\ Len(requests) <= Fetched + 1
        /\ ~tables.df_gauge_forecasts.fetched
        /\ \A k \in 1..Len(stdout) : stdout[k] # "Extraction succesful for {country} with issue date {a} and {b - a} issue days of data"

C9_Witness ==
    /\ pc = "raised" /\ argv = <<>>
    /\ Len(requests) = 2
    /\ tables.df_gauges.fetched
    /\ exc.cls = "GaugeModelsNotAvailableError"

Last(s) == s[Len(s)]

\* C10: a status-200 valid-JSON forecast response without `forecasts`
\* raises ForecastsNotAvailableError, and handle_exception reports it, a
\* non-200 status and malformed JSON each under its own branch, none as an
\* unexpected error.
C10_ForecastConditionsReported ==
    (pc = "done" /\ Len(requests) = 3 /\ exc # NoExc) =>
        LET r == requests[3].response IN
        /\ r.status_code # 200 => Last(stdout) = "HTTPError: {exc}"
        /\ (r.status_code = 200 /\ ~ValidJSON(r.text)) =>
              Last(stdout) = "JSONDecodeError: {exc}"
        /\ (r.status_code = 200 /\ r.text.kind = "object" /\ ~HasKey(r.text, "forecasts")) =>
              /\ exc.cls = "ForecastsNotAvailableError"
              /\ Last(stdout) = "ForecastsNotAvailableError: {exc}"

\* C16: no request is issued and no file written before every validation
\* of the command line has passed; a run whose validation fails has issued
\* no request and written no file; a command line with start = end passes.
C16_ValidationFirst ==
    argv # <<>> =>
        /\ (requests # <<>> \/ files # <<>>) => (~Malformed(argv) /\ args # NoArgs)
        /\ Malformed(argv) => (requests = <<>> /\ files = <<>> /\ args = NoArgs)
        /\ (~Malformed(argv) /\ pc # "main") =>
              /\ pc # "exited"
              /\ args = [country |-> argv[2], a |-> argv[3].day, b |-> argv[4].day,
                         export |-> TRUE]

C16_Witness ==
    /\ Len(argv) = 4
    /\ ~Malformed(argv)
    /\ argv[3].day = argv[4].day
    /\ Len(requests) = 3
    /\ Len(files) = 3

FilesWritten == {files[k] : k \in 1..Len(files)}

\* C17: with export = true, each of the three files is written once its
\* table is fetched, into a directory that exists then, whichever of the
\* ListGauges, GetGaugeModel and per-country forecast folders the run
\* started without.
C17_ParentDirectoriesCreated ==
    (args # NoArgs /\ args.export) =>
        /\ tables.df_gauges.fetched =>
              /\ ListGaugesDir \in dirs
              /\ ListGaugesPath(args.country) \in FilesWritten
        /\ tables.df_gauge_models.fetched =>
              /\ GetGaugeModelDir \in dirs
              /\ GetGaugeModelPath(args.country) \in FilesWritten
        /\ tables.df_gauge_forecasts.fetched =>
              /\ ForecastsDir(args.country) \in dirs
              /\ ForecastsPath(args.country, args.a, args.b) \in FilesWritten

\* The orchestrator has returned its three tables.
Returned == pc = "returned" \/ (pc = "done" /\ exc = NoExc)

\* The orchestrator has raised.
Raised == args # NoArgs /\ exc # NoExc /\ pc \in {"raised", "done"}

\* What the fetcher of the k-th request makes of the response it got.
FetchedFrom(k) ==
    CASE k = 1 -> get_ListGauges(requests[1].response)
      [] k = 2 -> get_GetGaugeModel(requests[2].response)
      [] k = 3 -> get_QueryGaugeForecasts(requests[3].response)

\* C18: the tables the orchestrator returns are those the provider's
\* responses give, and whether it returns them is decided by the responses
\* alone, export true or false; with export = false it writes no file and
\* creates no directory.
C18_ExportLeavesTables ==
    [][/\ Returned' =>
             /\ Len(requests') = 3
             /\ tables'.df_gauges = Table(FetchedFrom(1).val)'
             /\ tables'.df_gauge_models = Table(FetchedFrom(2).val)'
             /\ tables'.df_gauge_forecasts = Table(FetchedFrom(3).val)'
       /\ Raised' =>
             \/ ~get_json_file(args'.country).ok
             \/ (requests' # <<>> /\ ~(FetchedFrom(Len(requests)).ok)')
       /\ (args # NoArgs /\ ~args.export) => (files' = <<>> /\ dirs' = dirs)]_vars

ReportTexts ==
    {"HTTPError: {exc}", "JSONDecodeError: {exc}", "GaugesNotAvailableError: {exc}",
     "GaugeModelsNotAvailableError: {exc}", "ForecastsNotAvailableError: {exc}",
     "An unexpected error occurred: {exc}"}

Reports == {k \in 1..Len(stdout) : stdout[k] \in ReportTexts}

Successes ==
    {k \in 1..Len(stdout) :
        stdout[k] = "Extraction succesful for {country} with issue date {a} and {b - a} issue days of data"}

\* C20: in main, an exception raised during extraction, validation having
\* passed, is reported by handle_exception exactly once and main then
\* returns without raising; the success message is printed only when all
\* three fetchers have returned, and never in a run with an error report.
C20_MainReportsOnce ==
    (argv # <<>> /\ args # NoArgs) =>
        /\ pc # "exited"
        /\ pc = "raised" => (Reports = {} /\ ENABLED HandleException)
        /\ (pc = "done" /\ exc # NoExc) =>
              /\ Cardinality(Reports) = 1
              /\ Last(stdout) = handle_exception(exc)
              /\ exit_code = 0
        /\ exc = NoExc => Reports = {}
        /\ Successes # {} =>
              /\ Cardinality(Successes) = 1
              /\ Fetched = 3
              /\ Reports = {}
              /\ exc = NoExc

C20_Witness ==
    /\ argv # <<>> /\ pc = "done"
    /\ exc.cls = "GaugeModelsNotAvailableError"
    /\ Last(stdout) = "GaugeModelsNotAvailableError: {exc}"
    /\ Cardinality(Reports) = 1

\* C22: the gauge-model request carries one names=gaugeModels/<id> entry
\* per row of the gauge table, in table order, and the identifiers sent to
\* the forecast endpoint are the gaugeId column of the gauge-model table,
\* in order and multiplicity, not the identifiers of the gauge listing.
C22_IdentifiersThreaded ==
    /\ Len(requests) >= 2 =>
          LET listed == tables.df_gauges.rows IN
          /\ Len(requests[2].params) = Len(listed)
          /\ \A k \in 1..Len(listed) :
                requests[2].params[k] = <<"names=gaugeModels/", listed[k].gaugeId>>
    /\ Len(requests) >= 3 =>
          LET models == tables.df_gauge_models.rows
              sent == requests[3].params[1]
          IN /\ Len(sent) = Len(models)
             /\ \A k \in 1..Len(models) : sent[k] = models[k].gaugeId

C22_Witness ==
    /\ Len(requests) = 3
    /\ Len(tables.df_gauges.rows) = 2
    /\ tables.df_gauges.rows[2].gaugeId = "G2"
    /\ requests[2].params[2] = <<"names=gaugeModels/", "G2">>
    /\ requests[3].params[1] = <<"G1">>

\* C24: with export = true each table is written right after its own fetch
\* and before the next fetch starts: when the gauge-model fetch fails the
\* gauges file is written already, when the forecast fetch fails the gauges
\* file and the gauge-models file are written and the forecast file is not.
C24_WrittenAfterEachFetch ==
    (args # NoArgs /\ args.export) =>
        /\ Len(requests) >= 2 =>
              (Len(files) >= 1 /\ files[1] = ListGaugesPath(args.country))
        /\ Len(requests) >= 3 =>
              (Len(files) >= 2 /\ files[2] = GetGaugeModelPath(args.country))
        /\ (Len(requests) = 2 /\ ~tables.df_gauge_models.fetched) =>
              files = <<ListGaugesPath(args.country)>>
        /\ (Len(requests) = 3 /\ ~tables.df_gauge_forecasts.fetched) =>
              files = <<ListGaugesPath(args.country), GetGaugeModelPath(args.country)>>

C24_Witness ==
    /\ args # NoArgs /\ args.export
    /\ pc = "raised"
    /\ Len(requests) = 3
    /\ ~tables.df_gauge_forecasts.fetched
    /\ Len(files) = 2


(***************************************************************************)
(* The paths analyze.get_country_data reads, for a country and an interval *)
(* given as YYYY-MM-DD.                                                    *)
(***************************************************************************)
import_ListGauges_data(country) ==
    [dir |-> ListGaugesDir, stem |-> lower(country), a |-> 0, b |-> 0,
     suffix |-> "_gauges_listed.csv", index |-> FALSE]

import_GetGaugeModel_data(country) ==
    [dir |-> GetGaugeModelDir, stem |-> lower(country), a |-> 0, b |-> 0,
     suffix |-> "_gauge_models_metadata.csv", index |-> FALSE]

import_country_forecast_data(country, a, b) ==
    [dir |-> [root |-> "../data/floods_data/", sub |-> lower(country)],
     stem |-> <<>>, a |-> a, b |-> b, suffix |-> "{a}_to_{b}.csv", index |-> TRUE]

get_country_data(country, a, b) ==
    <<import_ListGauges_data(country), import_GetGaugeModel_data(country),
      import_country_forecast_data(country, a, b)>>

\* C25: each file the orchestrator writes with export = true lies at the
\* path, compared case-sensitively, from which get_country_data reads the
\* corresponding table for the same country and interval.
C25_ExportedWhereImported ==
    (args # NoArgs /\ args.export) =>
        \A k \in 1..Len(files) :
            files[k] = get_country_data(args.country, args.a, args.b)[k]

\* C27: a status-200 response whose expected key is present but empty
\* (gauges: [] for the gauge lister, forecasts: {} for the forecast
\* fetcher) passes verification without a domain-absence error, and the
\* flattening that follows raises a missing-column error instead of
\* returning an empty table.
C27_EmptyPayloadRaises ==
    /\ (/\ Len(requests) >= 1
        /\ requests[1].response = [status_code |-> 200, text |-> Object("gauges", <<>>)])
       => /\ verify_ListGauges(requests[1].response) = Return(<<>>)
          /\ ~tables.df_gauges.fetched
          /\ exc.cls = "KeyError" /\ exc.msg = "location"
    /\ (/\ Len(requests) >= 3
        /\ requests[3].response = [status_code |-> 200, text |-> Object("forecasts", <<>>)])
       => /\ verify_response_QueryGaugeForecasts(requests[3].response) = Return(<<>>)
          /\ ~tables.df_gauge_forecasts.fetched
          /\ exc.cls = "KeyError" /\ exc.msg = "issue_time"

C27_Witness ==
    /\ Len(requests) = 3
    /\ requests[3].response = [status_code |-> 200, text |-> Object("forecasts", <<>>)]
    /\ pc = "raised"
    /\ exc.msg = "issue_time"

====
